---- MODULE Spec2Model ----
(***************************************************************************)
(* Bag of Properties (BoP): the shape registry of BoPMeta, the membership  *)
(* predicates, the tabular container and the castBoPtype decorator of      *)
(* src/src/codeevaluation/typing/BagOfProperties.py.                       *)
(*                                                                         *)
(* Classes and container instances are identified by the order in which    *)
(* the interpreter allocated them: class 1 is BoP itself.                  *)
(***************************************************************************)
EXTENDS Naturals, Sequences, FiniteSets

\* ------------------------------------------------------------------ bounds

\* Classes the interpreter may hold, BoP included.
MaxClasses == 3

\* ------------------------------------------------- column descriptor types

\* Column descriptors of the test module: each defines name and datatype.
ValidTypes == {"ID", "CodeJava", "Status"}

\* Members a request may name that are no usable descriptor: the builtin str,
\* IntegerColumn (datatype, no name) and the abstract BoPColumn (neither).
InvalidTypes == {"str", "IntegerColumn", "BoPColumn"}

Types == ValidTypes \cup InvalidTypes

\* issubclass(typ, BoPColumn)
IsBoPColumn(typ) == typ \in ValidTypes \cup {"IntegerColumn", "BoPColumn"}

\* isinstance(getattr(typ, "name", None), str): on a class that does not set
\* it, `name` is the inherited abstract property object, not a str.
HasStrName(typ) == typ \in ValidTypes

\* isinstance(getattr(typ, "datatype", None), Type)
HasTypeDatatype(typ) == typ \in ValidTypes \cup {"IntegerColumn"}

\* col.name of a valid descriptor
ColName(typ) ==
    CASE typ = "ID" -> "id"
      [] typ = "CodeJava" -> "codeJava"
      [] typ = "Status" -> "status"
      [] OTHER -> "?"

\* ------------------------------------------------------------------- state

VARIABLES
    classes,    \* class id -> [base, params]: every class of metaclass BoPMeta
    registry,   \* BoPMeta._registry: a set of [cls, key, val] entries
    objs,       \* the heap: instance id -> [cls, df]
    last,       \* the operation whose outcome the caller is looking at
    th          \* the threads inside BoPMeta.__getitem__

vars == <<classes, registry, objs, last, th>>

\* The elements of a tuple: frozenset(typesTuple), set(cls._type_params).
Range(s) == {s[i] : i \in 1..Len(s)}

Min(S) == CHOOSE x \in S : \A y \in S : x <= y

\* The id of class BoP.
BoP == 1

Idle == [op |-> "idle"]

Threads == {1, 2}

ThreadIdle == [pc |-> "idle", cls |-> 0, item |-> <<>>, new_class |-> 0, ret |-> 0]

Init ==
    /\ classes = <<[base |-> 0, params |-> <<>>]>>
    /\ registry = {}
    /\ objs = <<>>
    /\ last = Idle
    /\ th = [t \in Threads |-> ThreadIdle]

\* ------------------------------------------------------------ type values

\* A class of metaclass BoPMeta, by its id.
Cls(n) == [meta |-> "BoPMeta", id |-> n, name |-> "BoP"]

\* A class whose metaclass is plain `type`: bool, str, int.
Builtin(name) == [meta |-> "type", id |-> 0, name |-> name]

BuiltinTypes == {Builtin("bool"), Builtin("str"), Builtin("int")}

\* A reference to the container instance with heap id n.
Obj(n) == [kind |-> "obj", id |-> n, lit |-> ""]

\* The values True, "test" and 42.
Prim(lit) == [kind |-> "prim", id |-> 0, lit |-> lit]

PrimValues == {Prim("True"), Prim("test"), Prim("42")}

\* type(value), on heap h
TypeOf(h, v) ==
    IF v.kind = "obj" THEN Cls(h[v.id].cls)
    ELSE IF v.lit = "True" THEN Builtin("bool")
    ELSE IF v.lit = "test" THEN Builtin("str")
    ELSE Builtin("int")

\* ------------------------------------------------- BoPMeta.__getitem__

\* The shape requests made: BoP[ID] is the one-member tuple (line 45).
ValidItems ==
    { <<>>, <<"ID">>, <<"CodeJava">>, <<"ID", "CodeJava">>, <<"CodeJava", "ID">>,
      <<"ID", "ID">>, <<"CodeJava", "Status">>, <<"ID", "CodeJava", "Status">> }

InvalidItems ==
    { <<"str">>, <<"CodeJava", "str">>, <<"str", "CodeJava">>, <<"IntegerColumn">>,
      <<"ID", "IntegerColumn">>, <<"IntegerColumn", "str">>, <<"str", "IntegerColumn">>,
      <<"BoPColumn">> }

Items == ValidItems \cup InvalidItems

\* The second test with `or` for `and`: one of the two attributes is enough.
DefinesNameOrDatatype(typ) == HasStrName(typ) \/ HasTypeDatatype(typ)

\* The second test of the validation loop (lines 52-55).
DefinesNameAndDatatype(typ) == HasStrName(typ) /\ HasTypeDatatype(typ)

\* Whether the validation loop raises on member typ.
Rejected(typ) == ~IsBoPColumn(typ) \/ ~DefinesNameAndDatatype(typ)

\* The validation loop (lines 47-58): the position of the first member it
\* raises on, 0 when it raises on none.
FirstInvalid(typesTuple) ==
    LET bad == {i \in 1..Len(typesTuple) : Rejected(typesTuple[i])}
    IN  IF bad = {} THEN 0 ELSE Min(bad)

NoError == [exc |-> "", msg |-> "", typ |-> ""]

\* The TypeError raised on member typ; its message holds typ.__name__.
InvalidShapeError(typ) ==
    IF ~IsBoPColumn(typ)
    THEN [exc |-> "TypeError", msg |-> "Invalid type", typ |-> typ]
    ELSE [exc |-> "TypeError", msg |-> "Invalid BoPColumn implementation", typ |-> typ]

\* The key as the tuple itself: it tells order and repetitions apart.
ShapeKeyOrdered(typesTuple) == typesTuple

\* key = frozenset(typesTuple)  (line 59)
ShapeKey(typesTuple) == Range(typesTuple)

\* (cls, key) in cls._registry
RegistryHas(reg, cls, key) == \E e \in reg : e.cls = cls /\ e.key = key

\* cls._registry[(cls, key)]
RegistryGet(reg, cls, key) == (CHOOSE e \in reg : e.cls = cls /\ e.key = key).val

\* A store that evicts: the new entry takes the place of all the others.
RegistryPutEvicting(reg, cls, key, val) == {[cls |-> cls, key |-> key, val |-> val]}

\* cls._registry[(cls, key)] = val: a dict holds one value per key.
RegistryPut(reg, cls, key, val) ==
    {e \in reg : ~(e.cls = cls /\ e.key = key)} \cup {[cls |-> cls, key |-> key, val |-> val]}

\* type(name, (cls,), {"_type_params": typesTuple})  (lines 64-68)
NewClass(cls, typesTuple) == [base |-> cls, params |-> typesTuple]

\* BoPMeta.__getitem__(cls, item) run from start to end on classes cs and
\* registry reg: what it raises or returns, and the classes and registry after.
getitem(cs, reg, cls, typesTuple) ==
    LET i == FirstInvalid(typesTuple)
        key == ShapeKey(typesTuple)
        new_class == Len(cs) + 1
    IN  IF i # 0
        THEN [raised |-> TRUE, err |-> InvalidShapeError(typesTuple[i]), ret |-> 0,
              classes |-> cs, registry |-> reg]
        ELSE IF RegistryHas(reg, cls, key)
        THEN [raised |-> FALSE, err |-> NoError, ret |-> RegistryGet(reg, cls, key),
              classes |-> cs, registry |-> reg]
        ELSE [raised |-> FALSE, err |-> NoError, ret |-> new_class,
              classes |-> Append(cs, NewClass(cls, typesTuple)),
              registry |-> RegistryPut(reg, cls, key, new_class)]

\* ---------------------------------------------------- membership predicates

\* get_typ_params_or_empty_set(bopClass): every class of the family has
\* _type_params, its own or BoP's empty tuple.
get_typ_params_or_empty_set(cs, bopClass) == Range(cs[bopClass].params)

\* The subset test of __subclasscheck__ taken the other way round.
subclasscheckReversed(cs, cls, subclass) ==
    IF subclass.meta # "BoPMeta" THEN FALSE
    ELSE get_typ_params_or_empty_set(cs, subclass.id)
             \subseteq get_typ_params_or_empty_set(cs, cls)

\* BoPMeta.__subclasscheck__(cls, subclass)
subclasscheck(cs, cls, subclass) ==
    IF subclass.meta # "BoPMeta" THEN FALSE
    ELSE get_typ_params_or_empty_set(cs, cls)
             \subseteq get_typ_params_or_empty_set(cs, subclass.id)

\* The subset test of __instancecheck__ taken the other way round.
instancecheckReversed(cs, h, cls, instance) ==
    LET instance_cls == TypeOf(h, instance)
    IN  IF instance_cls.meta # "BoPMeta" THEN FALSE
        ELSE get_typ_params_or_empty_set(cs, instance_cls.id)
                 \subseteq get_typ_params_or_empty_set(cs, cls)

\* __instancecheck__ without its metaclass test: a value of another family
\* counts as having no type parameters.
instancecheckNoMetaTest(cs, h, cls, instance) ==
    LET instance_cls == TypeOf(h, instance)
    IN  get_typ_params_or_empty_set(cs, cls)
            \subseteq (IF instance_cls.meta # "BoPMeta" THEN {}
                       ELSE get_typ_params_or_empty_set(cs, instance_cls.id))

\* BoPMeta.__instancecheck__(cls, instance)
instancecheck(cs, h, cls, instance) ==
    LET instance_cls == TypeOf(h, instance)
    IN  IF instance_cls.meta # "BoPMeta" THEN FALSE
        ELSE get_typ_params_or_empty_set(cs, cls)
                 \subseteq get_typ_params_or_empty_set(cs, instance_cls.id)

\* isinstance(instance, cls): the interpreter answers True when type(instance)
\* is cls and asks cls's metaclass otherwise.
isinstance_(cs, h, instance, cls) ==
    TypeOf(h, instance) = Cls(cls) \/ instancecheck(cs, h, cls, instance)

\* ------------------------------------------------------ tabular container

\* The missing-value marker.
None == "None"

\* Input records: a mapping from field name to value; "extra" is a field no
\* column descriptor names.
Record1 == [id |-> "1", codeJava |-> "x", status |-> "ok", extra |-> "e"]

Record2 == [id |-> "2"]

Record3 == [codeJava |-> "y", extra |-> "f"]

Datasets == {<<>>, <<Record1, Record2>>, <<Record3, Record1>>}

\* The keys of a dict built in the order of s: a repeated key keeps its
\* first position.
RECURSIVE DictKeys(_)
DictKeys(s) ==
    IF s = <<>> THEN <<>>
    ELSE LET front == DictKeys(SubSeq(s, 1, Len(s) - 1))
             k == s[Len(s)]
         IN  IF k \in Range(front) THEN front ELSE Append(front, k)

\* schema = {col.name: col.datatype for col in self._type_params}: its keys
SchemaColumns(params) == DictKeys([i \in 1..Len(params) |-> ColName(params[i])])

\* The row with its own fields kept beside the schema's.
ProcessRowKeepExtra(columns, row) ==
    [c \in Range(columns) \cup DOMAIN row |-> IF c \in DOMAIN row THEN row[c] ELSE None]

\* {col_name: row.get(col_name, None) for col_name in schema}
ProcessRow(columns, row) ==
    [c \in Range(columns) |-> IF c \in DOMAIN row THEN row[c] ELSE None]

\* The rows of processed_data (lines 174-176), in the order of data.
ProcessedData(columns, data) == [i \in 1..Len(data) |-> ProcessRow(columns, data[i])]

\* BoP.create_dataframe(self, data): data is None when hasData is false.
create_dataframe(params, hasData, data) ==
    LET columns == SchemaColumns(params)
    IN  IF ~hasData \/ data = <<>>
        THEN [columns |-> columns, rows |-> <<>>]
        ELSE [columns |-> columns, rows |-> ProcessedData(columns, data)]

\* BoP.get_types(self)
get_types(cs, h, id) == Range(cs[h[id].cls].params)

\* The select without its filter: every column of df.
SelectAllColumns(df, required_columns) == df

\* df.select([col for col in df.columns if col in required_columns])
SelectColumns(df, required_columns) ==
    LET kept == SelectSeq(df.columns, LAMBDA c : c \in required_columns)
    IN  [columns |-> kept,
         rows |-> [i \in 1..Len(df.rows) |-> [c \in Range(kept) |-> df.rows[i][c]]]]

\* --------------------------------------------------------------- castBoPtype

\* The orders in which tuple(required_types) may list a set.
Orders ==
    { <<"ID", "CodeJava", "Status">>, <<"ID", "Status", "CodeJava">>,
      <<"CodeJava", "ID", "Status">>, <<"CodeJava", "Status", "ID">>,
      <<"Status", "ID", "CodeJava">>, <<"Status", "CodeJava", "ID">> }

\* tuple(S), listing S in the order o
SetToTuple(S, o) == SelectSeq(o, LAMBDA t : t \in S)

\* The subset test of line 207 taken the other way round.
SatisfiesReversed(required_types, actual_types) == actual_types \subseteq required_types

\* required_types.issubset(actual_types)  (line 207)
Satisfies(required_types, actual_types) == required_types \subseteq actual_types

\* {col.name for col in required_types}
RequiredColumns(required_types) == {ColName(t) : t \in required_types}

\* The projection assigned to arg.df, not to casted_instance.df.
CastInPlace(cs, h, arg, casted_class, required_types) ==
    Append([h EXCEPT ![arg].df = SelectColumns(h[arg].df, RequiredColumns(required_types))],
           [cls |-> casted_class,
            df |-> create_dataframe(cs[casted_class].params, FALSE, <<>>)])

\* Lines 210-220: the new instance of casted_class, its df set to the
\* projection of arg's; the heap after.
CastInstance(cs, h, arg, casted_class, required_types) ==
    LET casted_instance ==
            [cls |-> casted_class,
             df |-> create_dataframe(cs[casted_class].params, FALSE, <<>>)]
    IN  Append(h, [casted_instance EXCEPT
                      !.df = SelectColumns(h[arg].df, RequiredColumns(required_types))])

\* The body of `for param, expected_type in hints.items()` for one hint, on
\* st = [classes, registry, heap, args].
ApplyHint(st, expected_type, o) ==
    IF ~(expected_type.meta = "BoPMeta" /\ subclasscheck(st.classes, BoP, expected_type))
    THEN st
    ELSE
    LET required_types == Range(st.classes[expected_type.id].params)
        matching == {i \in 1..Len(st.args) :
                        /\ isinstance_(st.classes, st.heap, st.args[i], BoP)
                        /\ Satisfies(required_types,
                                     Range(st.classes[TypeOf(st.heap, st.args[i]).id].params))}
    IN  IF matching = {} THEN st
        ELSE
        LET i == Min(matching)
            g == getitem(st.classes, st.registry, BoP, SetToTuple(required_types, o))
        IN  [classes |-> g.classes,
             registry |-> g.registry,
             heap |-> CastInstance(g.classes, st.heap, st.args[i].id, g.ret, required_types),
             args |-> [st.args EXCEPT ![i] = Obj(Len(st.heap) + 1)]]

\* wrapper(*args): the hints are taken in the order of get_type_hints(func),
\* the parameters first and the return annotation last.
RECURSIVE wrapper(_, _, _)
wrapper(st, hints, o) ==
    IF hints = <<>> THEN st
    ELSE CHOOSE after \in {wrapper(next, Tail(hints), o) :
                               next \in {ApplyHint(st, hints[1], o)}} : TRUE

\* ------------------------------------------------------------- operations

ClassIds == 1..Len(classes)

TypeValues == {Cls(n) : n \in ClassIds} \cup BuiltinTypes

Values == {Obj(n) : n \in 1..Len(objs)} \cup PrimValues

\* cls[item], sequentially.
GetItem(cls, item) ==
    /\ last = Idle
    /\ \E r \in {getitem(classes, registry, cls, item)} :
           /\ Len(r.classes) <= MaxClasses
           /\ classes' = r.classes
           /\ registry' = r.registry
           /\ last' = [op |-> "getitem", cls |-> cls, item |-> item,
                       raised |-> r.raised, err |-> r.err, ret |-> r.ret]
    /\ UNCHANGED <<objs, th>>

\* issubclass(subclass, cls) for a class cls of the family.
IsSubclass(subclass, cls) ==
    /\ last = Idle
    /\ last' = [op |-> "issubclass", subclass |-> subclass, cls |-> cls,
                result |-> subclasscheck(classes, cls, subclass)]
    /\ UNCHANGED <<classes, registry, objs, th>>

\* isinstance(instance, cls) for a class cls of the family.
IsInstance(instance, cls) ==
    /\ last = Idle
    /\ last' = [op |-> "isinstance", instance |-> instance, cls |-> cls,
                result |-> isinstance_(classes, objs, instance, cls)]
    /\ UNCHANGED <<classes, registry, objs, th>>

\* boP = cls(data) / boP = cls(): BoP.__init__. The caller keeps one
\* container, boP, as every test does: a new one takes the place of the old.
Construct(cls, hasData, data) ==
    /\ last = Idle
    /\ objs' = <<[cls |-> cls,
                 df |-> create_dataframe(classes[cls].params, hasData, data)]>>
    /\ last' = [op |-> "construct", cls |-> cls, hasData |-> hasData, data |-> data,
                obj |-> 1]
    /\ UNCHANGED <<classes, registry, th>>

\* The order of tuple(required_types) shows only in a class the call makes:
\* one order stands for all when every hinted shape of two or more columns is
\* registered on BoP already.
OrdersFor(hints) ==
    IF \A k \in DOMAIN hints :
          hints[k].meta = "BoPMeta" =>
              LET S == Range(classes[hints[k].id].params)
              IN  Cardinality(S) <= 1 \/ RegistryHas(registry, BoP, S)
    THEN {<<"ID", "CodeJava", "Status">>}
    ELSE Orders

\* A call, with positional arguments args, of a function decorated with
\* castBoPtype whose type hints are hints; the function looks at what it is
\* handed (received). Instances the wrapper made live in the heap above nheap.
Call(hints, args) ==
    /\ last = Idle
    /\ \E o \in OrdersFor(hints) :
       \E st \in {wrapper([classes |-> classes, registry |-> registry,
                             heap |-> objs, args |-> args], hints, o)} :
           /\ Len(st.classes) <= MaxClasses
           /\ classes' = st.classes
           /\ registry' = st.registry
           /\ objs' = st.heap
           /\ last' = [op |-> "call", hints |-> hints, args |-> args,
                       received |-> st.args, nheap |-> Len(objs)]
    /\ UNCHANGED th

\* The caller has looked at the outcome and goes on; the instances a call's
\* wrapper made are dropped with the call.
Resume ==
    /\ last # Idle
    /\ last' = Idle
    /\ objs' = IF last.op = "call" THEN SubSeq(objs, 1, last.nheap) ELSE objs
    /\ UNCHANGED <<classes, registry, th>>

\* ---- the shape engine alone: requests on every class, and issubclass

Next ==
    \/ \E cls \in ClassIds, item \in Items : GetItem(cls, item)
    \/ \E subclass \in TypeValues, cls \in ClassIds : IsSubclass(subclass, cls)
    \/ Resume

Spec == Init /\ [][Next]_vars

\* ---- containers: shapes of BoP, construction and the two predicates

NextData ==
    \/ \E item \in Items : GetItem(BoP, item)
    \/ \E cls \in ClassIds : Construct(cls, FALSE, <<>>)
    \/ \E cls \in ClassIds, data \in Datasets : Construct(cls, TRUE, data)
    \/ \E instance \in Values, cls \in ClassIds : IsInstance(instance, cls)
    \/ \E subclass \in TypeValues, cls \in ClassIds : IsSubclass(subclass, cls)
    \/ Resume

SpecData == Init /\ [][NextData]_vars

\* ---- decorated calls on containers of shapes of BoP

\* The shapes the decorated functions and their callers name.
CastItems ==
    { <<>>, <<"ID">>, <<"CodeJava">>, <<"ID", "CodeJava">>, <<"CodeJava", "ID">>,
      <<"CodeJava", "Status">> }

\* Type hints of a decorated function: one or two, each a class of the family
\* or bool.
HintTypes == {Cls(n) : n \in ClassIds} \cup {Builtin("bool")}

Signatures == {<<t>> : t \in HintTypes} \cup {<<t, u>> : t \in HintTypes, u \in HintTypes}

ArgValues == {Obj(n) : n \in 1..Len(objs)} \cup {Prim("42")}

ArgVectors == {<<a>> : a \in ArgValues} \cup {<<a, b>> : a \in ArgValues, b \in ArgValues}

NextCast ==
    \/ \E item \in CastItems : GetItem(BoP, item)
    \/ \E cls \in ClassIds : Construct(cls, FALSE, <<>>)
    \/ \E cls \in ClassIds, data \in Datasets : Construct(cls, TRUE, data)
    \/ \E hints \in Signatures, args \in ArgVectors : Call(hints, args)
    \/ Resume

SpecCast == Init /\ [][NextCast]_vars

\* ---- shapes requested from shapes: T[K] for a class T the engine made,
\* containers of them, and the two predicates

NextNested ==
    \/ \E cls \in ClassIds, item \in CastItems : GetItem(cls, item)
    \/ \E cls \in ClassIds : Construct(cls, FALSE, <<>>)
    \/ \E instance \in Values, cls \in ClassIds : IsInstance(instance, cls)
    \/ \E subclass \in TypeValues, cls \in ClassIds : IsSubclass(subclass, cls)
    \/ Resume

SpecNested == Init /\ [][NextNested]_vars

\* ---- two threads inside BoPMeta.__getitem__: the interpreter may switch
\* threads between the membership test of line 61, the class creation of
\* lines 64-68, the store of line 69 and the return; no lock is held.

\* The requests the threads make, all on BoP.
ConcItems == {<<"ID">>, <<"ID", "CodeJava">>, <<"CodeJava", "ID">>, <<"CodeJava", "str">>}

\* Lines 45-59: the validation loop and the key, on the thread's own data.
Begin(t, cls, item) ==
    /\ th[t].pc \in {"idle", "done", "raised"}
    /\ th' = [th EXCEPT ![t] =
                [pc |-> IF FirstInvalid(item) # 0 THEN "raised" ELSE "check",
                 cls |-> cls, item |-> item, new_class |-> 0, ret |-> 0]]
    /\ UNCHANGED <<classes, registry, objs, last>>

\* Line 61: if (cls, key) in cls._registry
Check(t) ==
    /\ th[t].pc = "check"
    /\ th' = [th EXCEPT ![t].pc =
                IF RegistryHas(registry, th[t].cls, ShapeKey(th[t].item))
                THEN "fetch" ELSE "create"]
    /\ UNCHANGED <<classes, registry, objs, last>>

\* Line 62: return cls._registry[(cls, key)]
Fetch(t) ==
    /\ th[t].pc = "fetch"
    /\ th' = [th EXCEPT ![t].pc = "done",
                        ![t].ret = RegistryGet(registry, th[t].cls, ShapeKey(th[t].item))]
    /\ UNCHANGED <<classes, registry, objs, last>>

\* Lines 64-68: new_class = type(...)
Create(t) ==
    /\ th[t].pc = "create"
    /\ Len(classes) < MaxClasses
    /\ classes' = Append(classes, NewClass(th[t].cls, th[t].item))
    /\ th' = [th EXCEPT ![t].pc = "store", ![t].new_class = Len(classes) + 1]
    /\ UNCHANGED <<registry, objs, last>>

\* Lines 69-70: cls._registry[(cls, key)] = new_class; return new_class
Store(t) ==
    /\ th[t].pc = "store"
    /\ registry' = RegistryPut(registry, th[t].cls, ShapeKey(th[t].item), th[t].new_class)
    /\ th' = [th EXCEPT ![t].pc = "done", ![t].ret = th[t].new_class]
    /\ UNCHANGED <<classes, objs, last>>

NextConc ==
    \/ \E t \in Threads, item \in ConcItems : Begin(t, BoP, item)
    \/ \E t \in Threads : Check(t)
    \/ \E t \in Threads : Fetch(t)
    \/ \E t \in Threads : Create(t)
    \/ \E t \in Threads : Store(t)

SpecConc == Init /\ [][NextConc]_vars

\* ---- every sequential operation together: requests on every class, valid
\* and invalid, construction, the two predicates and decorated calls

NextAll ==
    \/ \E cls \in ClassIds, item \in ConcItems : GetItem(cls, item)
    \/ \E cls \in ClassIds : Construct(cls, FALSE, <<>>)
    \/ \E cls \in ClassIds, data \in Datasets : Construct(cls, TRUE, data)
    \/ \E instance \in Values, cls \in ClassIds : IsInstance(instance, cls)
    \/ \E subclass \in TypeValues, cls \in ClassIds : IsSubclass(subclass, cls)
    \/ \E hints \in Signatures, args \in ArgVectors : Call(hints, args)
    \/ Resume

SpecAll == Init /\ [][NextAll]_vars

\* ===================================================================== claims

\* The column set a type was requested with: the key of its registry entry;
\* BoP itself, requested with nothing, has the empty one.
ColumnSetOf(c) ==
    IF \E e \in registry : e.val = c
    THEN (CHOOSE e \in registry : e.val = c).key
    ELSE {}

\* The types requested from BoP: BoP[...].
ShapesOfBoP == {e.val : e \in {x \in registry : x.cls = BoP}}

\* C1: in a sequential run no two types of the same base carry the same set of
\* column descriptors, and a request that returns hands back the one type of
\* its base and its set of members, whatever their order and repetitions: two
\* requests of one (base, column set) return the identical type.
C1_OneTypePerShape ==
    /\ \A a, b \in 2..Len(classes) :
          (/\ classes[a].base = classes[b].base
           /\ Range(classes[a].params) = Range(classes[b].params)) => a = b
    /\ (last.op = "getitem" /\ ~last.raised) =>
          /\ last.ret \in 2..Len(classes)
          /\ classes[last.ret].base = last.cls
          /\ Range(classes[last.ret].params) = Range(last.item)
          /\ \A e \in registry :
                (e.cls = last.cls /\ e.key = ShapeKey(last.item)) => e.val = last.ret

\* C1's case: BoP[CodeJava, ID] returns the type BoP[ID, CodeJava] made.
C1_Witness ==
    /\ last.op = "getitem"
    /\ ~last.raised
    /\ last.item = <<"CodeJava", "ID">>
    /\ classes[last.ret].params = <<"ID", "CodeJava">>

\* C3: for two shapes A and B of BoP, issubclass(A, B) is true exactly when
\* the column set B was requested with is a subset of A's.
C3_SubShapeIffSuperset ==
    (last.op = "issubclass" /\ last.subclass.meta = "BoPMeta"
        /\ last.subclass.id \in ShapesOfBoP /\ last.cls \in ShapesOfBoP) =>
        (last.result <=> ColumnSetOf(last.cls) \subseteq ColumnSetOf(last.subclass.id))

\* C3's case: issubclass(A, B) is true for A with strictly more columns than B.
C3_Witness ==
    /\ last.op = "issubclass"
    /\ last.subclass.meta = "BoPMeta"
    /\ last.subclass.id \in ShapesOfBoP
    /\ last.cls \in ShapesOfBoP
    /\ last.result
    /\ ColumnSetOf(last.cls) # {}
    /\ ColumnSetOf(last.cls) # ColumnSetOf(last.subclass.id)

\* C4: two threads whose requests for one (base, column set) have both
\* returned hold the same type, however their steps were interleaved.
C4_ConcurrentFirstRequestsAgree ==
    \A t, u \in Threads :
        (/\ th[t].pc = "done" /\ th[u].pc = "done"
         /\ th[t].cls = th[u].cls
         /\ Range(th[t].item) = Range(th[u].item)) => th[t].ret = th[u].ret

\* C9: a request raises exactly when some member is no subclass of BoPColumn
\* or lacks a str name or a type datatype; it then raises TypeError naming
\* such a member and returns no type.
C9_InvalidMemberRejected ==
    last.op = "getitem" =>
        LET offending == {last.item[i] : i \in {j \in 1..Len(last.item) :
                             \/ ~IsBoPColumn(last.item[j])
                             \/ ~HasStrName(last.item[j])
                             \/ ~HasTypeDatatype(last.item[j])}}
        IN  /\ last.raised <=> offending # {}
            /\ last.raised =>
                  /\ last.err.exc = "TypeError"
                  /\ last.err.typ \in offending
                  /\ last.ret = 0

\* C9's case: the offending member stands after a valid one.
C9_Witness ==
    /\ last.op = "getitem"
    /\ last.raised
    /\ last.item = <<"ID", "IntegerColumn">>
    /\ last.err.typ = "IntegerColumn"

\* The names of the columns of a column set.
NamesOf(C) == {ColName(t) : t \in C}

\* The column set of the type of the container with heap id n.
ColumnSetOfObj(n) == ColumnSetOf(objs[n].cls)

\* C2: for a container x of a type with column set C and a shape S of BoP
\* with a non-empty column set, isinstance(x, S) is true exactly when S's
\* column set is a subset of C.
C2_InstanceIffSubset ==
    (last.op = "isinstance" /\ last.instance.kind = "obj"
        /\ last.cls \in ShapesOfBoP /\ ColumnSetOf(last.cls) # {}) =>
        (last.result <=> ColumnSetOf(last.cls) \subseteq ColumnSetOfObj(last.instance.id))

\* C2's case: the shapes of x and S overlap and neither holds the other.
C2_Witness ==
    /\ last.op = "isinstance"
    /\ last.instance.kind = "obj"
    /\ last.cls \in ShapesOfBoP
    /\ ColumnSetOf(last.cls) \cap ColumnSetOfObj(last.instance.id) # {}
    /\ ~(ColumnSetOf(last.cls) \subseteq ColumnSetOfObj(last.instance.id))
    /\ ~(ColumnSetOfObj(last.instance.id) \subseteq ColumnSetOf(last.cls))
    /\ ~last.result

\* C5: isinstance(x, BoP) is true of every container and of no other value,
\* issubclass(T, BoP) of every class of the family and of no other type; a
\* value or type outside the family satisfies no check of the family, and an
\* instance of BoP itself is no instance of a shape with a column.
C5_BaseTypeUniversal ==
    /\ (last.op = "isinstance" /\ last.cls = BoP) =>
          (last.result <=> last.instance.kind = "obj")
    /\ (last.op = "issubclass" /\ last.cls = BoP) =>
          (last.result <=> last.subclass.meta = "BoPMeta")
    /\ (last.op = "isinstance" /\ last.instance.kind = "prim") => ~last.result
    /\ (last.op = "issubclass" /\ last.subclass.meta = "type") => ~last.result
    /\ (last.op = "isinstance" /\ last.instance.kind = "obj"
           /\ objs[last.instance.id].cls = BoP /\ ColumnSetOf(last.cls) # {}) =>
          ~last.result

\* C5's case: a container of a shape with columns is an instance of BoP.
C5_Witness ==
    /\ last.op = "isinstance"
    /\ last.cls = BoP
    /\ last.instance.kind = "obj"
    /\ ColumnSetOfObj(last.instance.id) # {}
    /\ last.result

\* C10: the table of a container built from records has the names of its
\* type's column set as its column labels, each once; one row per record in
\* the order given, a column holding the record's value or None when the
\* record lacks the field, and no field outside the column set; with no
\* records, no rows. (Of a type with no column the table is left to the
\* table library.)
C10_ConstructedTableHasShape ==
    (last.op = "construct" /\ ColumnSetOf(last.cls) # {}) =>
        LET df == objs[last.obj].df
            names == NamesOf(ColumnSetOf(last.cls))
        IN  /\ objs[last.obj].cls = last.cls
            /\ Range(df.columns) = names
            /\ Len(df.columns) = Cardinality(names)
            /\ IF last.hasData
               THEN /\ Len(df.rows) = Len(last.data)
                    /\ \A i \in 1..Len(last.data) :
                          /\ DOMAIN df.rows[i] = names
                          /\ \A c \in names :
                                df.rows[i][c] = IF c \in DOMAIN last.data[i]
                                                THEN last.data[i][c] ELSE None
               ELSE df.rows = <<>>

\* C10's case: two records, one lacking a column, one with a field that is
\* no column, into a shape of two columns.
C10_Witness ==
    /\ last.op = "construct"
    /\ last.hasData
    /\ Len(last.data) = 2
    /\ Cardinality(ColumnSetOf(last.cls)) = 2
    /\ \E i \in 1..2 : \E c \in NamesOf(ColumnSetOf(last.cls)) :
          objs[last.obj].df.rows[i][c] = None
    /\ \E i \in 1..2 : ~(DOMAIN last.data[i] \subseteq NamesOf(ColumnSetOf(last.cls)))

\* The positions of the hints that are classes of the family.
ShapedHints(hints) == {k \in DOMAIN hints : hints[k].meta = "BoPMeta"}

\* The one shaped hint of a call whose function has exactly one.
TheHint == last.hints[CHOOSE k \in ShapedHints(last.hints) : TRUE].id

\* A call of a function with exactly one shaped hint, of a non-empty shape.
OneShapeCall ==
    /\ last.op = "call"
    /\ Cardinality(ShapedHints(last.hints)) = 1
    /\ ColumnSetOf(TheHint) # {}

\* The positions whose argument is a container holding every column of R.
Holding(R) ==
    {i \in DOMAIN last.args :
        last.args[i].kind = "obj" /\ R \subseteq ColumnSetOfObj(last.args[i].id)}

\* C6: when the one shaped parameter asks for R and a container holding R is
\* passed, the function receives in its place (the first such position) a new
\* instance of the registry's type for (BoP, R), whose table has exactly R's
\* columns and, in them, the caller's rows in order; every other argument is
\* passed as it is.
C6_NarrowedToRequiredShape ==
    (OneShapeCall /\ Holding(ColumnSetOf(TheHint)) # {}) =>
        LET R == ColumnSetOf(TheHint)
            i == Min(Holding(R))
            old == objs[last.args[i].id].df
            new == last.received[i]
        IN  /\ new.kind = "obj"
            /\ new.id > last.nheap
            /\ objs[new.id].cls \in ShapesOfBoP
            /\ ColumnSetOf(objs[new.id].cls) = R
            /\ \A e \in registry : (e.cls = BoP /\ e.key = R) => e.val = objs[new.id].cls
            /\ Range(objs[new.id].df.columns) = NamesOf(R)
            /\ Len(objs[new.id].df.columns) = Cardinality(NamesOf(R))
            /\ Len(objs[new.id].df.rows) = Len(old.rows)
            /\ \A j \in 1..Len(old.rows) :
                  /\ DOMAIN objs[new.id].df.rows[j] = NamesOf(R)
                  /\ \A c \in NamesOf(R) : objs[new.id].df.rows[j][c] = old.rows[j][c]
            /\ \A j \in DOMAIN last.args : j # i => last.received[j] = last.args[j]

\* C6's case: f(boP: BoP[R]) -> bool called with a container of two rows
\* that has a column more than R.
C6_Witness ==
    /\ OneShapeCall
    /\ last.hints = <<Cls(TheHint), Builtin("bool")>>
    /\ last.args = <<Obj(1)>>
    /\ ColumnSetOf(TheHint) \subseteq ColumnSetOfObj(1)
    /\ ColumnSetOf(TheHint) # ColumnSetOfObj(1)
    /\ Len(objs[1].df.rows) = 2
    /\ last.received # last.args

\* C7: a call through the decorator leaves every container of the caller
\* with its type, its column set and its table; what the function receives in
\* place of an argument is an instance made during the call.
C7_CallerArgumentsUntouched ==
    [][(last = Idle /\ last'.op = "call") =>
          /\ Len(objs') >= Len(objs)
          /\ \A n \in 1..Len(objs) :
                /\ objs'[n] = objs[n]
                /\ get_types(classes', objs', n) = get_types(classes, objs, n)
          /\ \A j \in DOMAIN last'.args :
                last'.received[j] # last'.args[j] =>
                    /\ last'.received[j].kind = "obj"
                    /\ last'.received[j].id > Len(objs)]_vars

\* C7's case: a call has narrowed a container of a table with rows to fewer
\* columns.
C7_Witness ==
    /\ last.op = "call"
    /\ last.args[1].kind = "obj"
    /\ last.received[1] # last.args[1]
    /\ objs[last.args[1].id].df.rows # <<>>
    /\ Len(objs[last.received[1].id].df.columns) < Len(objs[last.args[1].id].df.columns)

\* C8: when the one shaped parameter asks for R, a container that lacks a
\* column of R reaches the function as the very instance the caller passed,
\* its type as it was, and is no instance of the hinted shape; when no
\* argument holds R the call makes no instance at all.
C8_RefusedArgumentPassedThrough ==
    OneShapeCall =>
        LET R == ColumnSetOf(TheHint)
        IN  /\ \A j \in DOMAIN last.args :
                  (last.args[j].kind = "obj" /\ j \notin Holding(R)) =>
                      /\ last.received[j] = last.args[j]
                      /\ ~isinstance_(classes, objs, last.received[j], TheHint)
            /\ Holding(R) = {} =>
                  /\ last.received = last.args
                  /\ Len(objs) = last.nheap

\* C8's case: the container shares a column with R and lacks another.
C8_Witness ==
    /\ OneShapeCall
    /\ last.args = <<Obj(1)>>
    /\ ColumnSetOf(TheHint) \cap ColumnSetOfObj(1) # {}
    /\ ~(ColumnSetOf(TheHint) \subseteq ColumnSetOfObj(1))
    /\ last.received = last.args

\* C11: a class the engine returned for a request on base T passes
\* issubclass against T, and a container of it passes isinstance against T,
\* for T = BoP and for T a class the engine made.
C11_ShapeIsSubtypeOfItsBase ==
    /\ (last.op = "issubclass" /\ last.subclass.meta = "BoPMeta"
           /\ classes[last.subclass.id].base = last.cls) => last.result
    /\ (last.op = "isinstance" /\ last.instance.kind = "obj"
           /\ classes[objs[last.instance.id].cls].base = last.cls) => last.result

\* C12: in a sequential run every step keeps every entry of the registry (no
\* key is removed or bound to another type), the registry binds a key to one
\* type only, and a request that raises leaves the registry as it was.
C12_RegistryAppendOnly ==
    [][/\ \A e \in registry : e \in registry'
       /\ \A e, f \in registry' : (e.cls = f.cls /\ e.key = f.key) => e.val = f.val
       /\ (last = Idle /\ last'.op = "getitem" /\ last'.raised) => registry' = registry]_vars

\* C12's case: a request has raised while two keys were bound.
C12_Witness ==
    /\ last.op = "getitem"
    /\ last.raised
    /\ Cardinality(registry) >= 2

\* C13: when the function has several shaped hints, each of a shape with a
\* column (parameters, or a parameter and the return type), every annotated
\* positional parameter i whose argument from the caller is an instance of the
\* hinted shape receives an instance of that shape.
C13_PositionwiseNarrowingSafe ==
    (/\ last.op = "call"
     /\ Cardinality(ShapedHints(last.hints)) >= 2
     /\ \A k \in ShapedHints(last.hints) : ColumnSetOf(last.hints[k].id) # {}) =>
        \A i \in DOMAIN last.args \cap ShapedHints(last.hints) :
            isinstance_(classes, objs, last.args[i], last.hints[i].id) =>
                isinstance_(classes, objs, last.received[i], last.hints[i].id)

====
